---- MODULE Spec2Model ----
(***************************************************************************)
(* A model of the draggable bottom sheet: the BottomSheet component        *)
(* (src/src/BottomSheet.tsx, lines 1-307), its drag hook                   *)
(* (src/src/hooks/useDragHandlers.ts), its accessibility hook              *)
(* (src/src/hooks/useA11yProps.ts) and the provider that shows and hides   *)
(* a sheet app-wide (src/src/context/BottomSheetContext.tsx).              *)
(*                                                                         *)
(* The component is a React function component.  Every handler runs to     *)
(* completion against the values its closure captured, then React commits  *)
(* the queued state updates and re-renders; an action of this model is one *)
(* DOM event (or one host update) together with the re-render and the      *)
(* effects it causes.  Memoised callbacks (useCallback) are modelled as    *)
(* closure instances: a record of the captured values plus an identity,    *)
(* because document.removeEventListener compares function identity.        *)
(*                                                                         *)
(* Pixel values are numbers; viewport heights are multiples of 100 so that *)
(* (p / 100) * innerHeight is exact.  The two non-numeric JavaScript       *)
(* values that the code can produce, NaN and undefined, are modelled by    *)
(* two reserved integers with JavaScript's arithmetic on them.             *)
(***************************************************************************)
EXTENDS Integers, Sequences, FiniteSets, TLC

(***************************************************************************)
(* Bounds of the model.                                                    *)
(***************************************************************************)
\* most document-level mousemove listeners that may be registered at once
MaxListeners == 1
\* cap of |#onDragStart - #onDragEnd| that the host's tally follows
MaxBalance == 2
\* longest snap point list of the resolver harness
MaxSnapLen == 3
\* longest run of key presses on the handle that the host's count follows
MaxKeyRun == 3
\* most props objects passed to showBottomSheet that the host's record keeps
MaxShown == 2

(***************************************************************************)
(* JavaScript numbers.                                                     *)
(***************************************************************************)
NaN == 0 - 999999
Undefined == 0 - 999998

IsNum(x) == x # NaN /\ x # Undefined

JsAdd(a, b) == IF IsNum(a) /\ IsNum(b) THEN a + b ELSE NaN
JsSub(a, b) == IF IsNum(a) /\ IsNum(b) THEN a - b ELSE NaN
JsAbs(a) == IF IsNum(a) THEN (IF a < 0 THEN 0 - a ELSE a) ELSE NaN
JsLt(a, b) == IsNum(a) /\ IsNum(b) /\ a < b
MathMax(a, b) == IF IsNum(a) /\ IsNum(b) THEN (IF a < b THEN b ELSE a) ELSE NaN
MathMin(a, b) == IF IsNum(a) /\ IsNum(b) THEN (IF b < a THEN b ELSE a) ELSE NaN
\* (p / 100) * window.innerHeight
PercentOf(p, V) == IF IsNum(p) THEN (p * V) \div 100 ELSE NaN

(***************************************************************************)
(* Dimension strings.  A string is modelled by what the code reads of it:  *)
(* which suffix test it passes and what parseFloat returns for it.         *)
(***************************************************************************)
Pct(n) == [suffix |-> "%", num |-> n]
Px(n) == [suffix |-> "px", num |-> n]
Garbage == [suffix |-> "", num |-> NaN]
\* a number with no unit or an unknown one ("120", "50vh")
Bare(n) == [suffix |-> "", num |-> n]

isBrowser == TRUE

\* BottomSheet.tsx 43-54
getInitialHeightValue(initial, V) ==
  IF ~isBrowser THEN 0
  ELSE IF initial.suffix = "%" THEN PercentOf(initial.num, V)
  ELSE IF initial.suffix = "px" THEN initial.num
  ELSE (3 * V) \div 10

\* BottomSheet.tsx 57-66
getPixelValue(value, V) ==
  IF ~isBrowser THEN 0
  ELSE IF value.suffix = "%" THEN PercentOf(value.num, V)
  ELSE IF value.suffix = "px" THEN value.num
  ELSE value.num

\* a clamp that applies the lower bound first: Math.min(max, Math.max(min, h))
ClampHeightLowerFirst(h, minPx, maxPx) == MathMin(maxPx, MathMax(minPx, h))

\* Math.max(minHeightPx, Math.min(maxHeightPx, newHeight))
ClampHeight(h, minPx, maxPx) == MathMax(minPx, MathMin(maxPx, h))

(***************************************************************************)
(* The snap resolver, BottomSheet.tsx 93-121.                              *)
(***************************************************************************)
\* snapPoints.map((point) => (point / 100) * window.innerHeight)
snapPointsPixels(points, V) == [i \in 1..Len(points) |-> PercentOf(points[i], V)]

\* a loop that also replaces the running point on an equal distance, so
\* that the later of two equally near points wins
RECURSIVE NearestFromLast(_, _, _, _, _)
NearestFromLast(pix, i, height, nearestPoint, minDistance) ==
  IF i > Len(pix) THEN nearestPoint
  ELSE LET distance == JsAbs(JsSub(height, pix[i]))
       IN IF JsLt(distance, minDistance) \/ distance = minDistance
          THEN NearestFromLast(pix, i + 1, height, pix[i], distance)
          ELSE NearestFromLast(pix, i + 1, height, nearestPoint, minDistance)

\* the forEach loop of lines 104-110, from position i on, with the running
\* nearestPoint and minDistance
RECURSIVE NearestFrom(_, _, _, _, _)
NearestFrom(pix, i, height, nearestPoint, minDistance) ==
  IF i > Len(pix) THEN nearestPoint
  ELSE LET distance == JsAbs(JsSub(height, pix[i]))
       IN IF JsLt(distance, minDistance)
          THEN NearestFrom(pix, i + 1, height, pix[i], distance)
          ELSE NearestFrom(pix, i + 1, height, nearestPoint, minDistance)

\* Array.prototype.indexOf, 0-based, -1 when absent (strict equality: NaN
\* is never found)
IndexOf(pix, v) ==
  IF v # NaN /\ \E i \in 1..Len(pix) : pix[i] = v
  THEN (CHOOSE i \in 1..Len(pix) : pix[i] = v /\ \A j \in 1..(i - 1) : pix[j] # v) - 1
  ELSE 0 - 1

\* a resolver that reports the index it found twice
findNearestSnapPointTwice(height, snapping, points, V) ==
  IF ~snapping \/ ~isBrowser THEN [height |-> height, onSnap |-> <<>>]
  ELSE LET pix == snapPointsPixels(points, V)
           first == IF Len(pix) = 0 THEN Undefined ELSE pix[1]
           nearestPoint == NearestFrom(pix, 1, height, first, JsAbs(JsSub(height, first)))
           snapIndex == IndexOf(pix, nearestPoint)
       IN [height |-> nearestPoint,
           onSnap |-> IF snapIndex # 0 - 1 THEN <<snapIndex, snapIndex>> ELSE <<>>]

\* the result and the onSnap invocations of findNearestSnapPoint(height)
findNearestSnapPoint(height, snapping, points, V) ==
  IF ~snapping \/ ~isBrowser THEN [height |-> height, onSnap |-> <<>>]
  ELSE LET pix == snapPointsPixels(points, V)
           first == IF Len(pix) = 0 THEN Undefined ELSE pix[1]
           nearestPoint == NearestFrom(pix, 1, height, first, JsAbs(JsSub(height, first)))
           snapIndex == IndexOf(pix, nearestPoint)
       IN [height |-> nearestPoint,
           onSnap |-> IF snapIndex # 0 - 1 THEN <<snapIndex>> ELSE <<>>]

(***************************************************************************)
(* Inputs of the model: the values the host and the environment choose.    *)
(***************************************************************************)
\* window.innerHeight
Viewports == {1000, 500}
\* clientY of a touch or mouse event
Ys == {300, 600}
InitialHeights == {Pct(30), Px(400)}
MinHeights == {Pct(10), Pct(60)}
MaxHeights == {Pct(90), Pct(50)}
SnapSets == {<<30, 60, 90>>, <<>>}
\* the callback props whose identity a host re-render can change
Callbacks == {"onDragStart", "onDragEnd", "onHeightChange", "onSnap"}
CallbackChanges == {{"onDragStart"}, Callbacks}

VARIABLES
  \* props (BottomSheet.tsx 9-41)
  initialHeight, minHeight, maxHeight, isDraggable, enableSnapping, snapPoints,
  \* whether the host passes snapPoints (an array it keeps) or leaves it to
  \* the default of line 17, an array literal evaluated on every render
  snapPointsPassed,
  \* the host's state behind the sheetHeight / setSheetHeight props
  sheetHeight,
  \* component state and refs (BottomSheet.tsx 76-90)
  isDragging, dragStartY, dragStartHeight, minHeightPx, maxHeightPx,
  \* the memoised mouse handlers of the last render (useDragHandlers.ts)
  handleMouseDown, handleMouseMove, handleMouseUp,
  \* environment: window.innerHeight, the document's listeners, the pointers
  innerHeight, docMouseMove, docMouseUp, touchHeld, mouseHeld, mounted,
  \* what the host observed of the last event: the event, the callbacks it
  \* invoked in order, the running #onDragStart - #onDragEnd, whether a
  \* handler called the event's preventDefault, and how many key presses on
  \* the handle have come in a row
  lastOp, calls, dragBalance, defaultPrevented, keyRun,
  \* visibility: the props isVisible, closeOnEscape, closeOnClickOutside,
  \* onClose and id (BottomSheet.tsx 14-40), the visible state (line 79), the
  \* document's keydown listeners and the memoised accessibility attributes
  isVisible, closeOnEscape, closeOnClickOutside, onClose, id,
  visible, docKeydown, a11yProps,
  \* the resolver harness: one call of findNearestSnapPoint and its result
  snapArgs, snapResult,
  \* the conversion harness: one dimension string and viewport, and what
  \* getInitialHeightValue and getPixelValue make of them
  dimArgs, dimResult,
  \* the BottomSheetProvider (context/BottomSheetContext.tsx 29-62): its
  \* defaultProps prop, its two pieces of state, and what the host recorded
  \* of it: the state useState started from, the last showBottomSheet or
  \* hideBottomSheet call, and the props objects passed to showBottomSheet
  \* so far in call order
  defaultProps, providerIsVisible, sheetProps,
  initialSheetProps, lastCall, passed,
  \* one call of useBottomSheet by a component and what came of it
  hookResult

props == <<initialHeight, minHeight, maxHeight, isDraggable, enableSnapping, snapPoints,
          snapPointsPassed>>
refs == <<dragStartY, dragStartHeight>>
rendered == <<minHeightPx, maxHeightPx, handleMouseDown, handleMouseMove, handleMouseUp>>
listeners == <<docMouseMove, docMouseUp>>
pointers == <<touchHeld, mouseHeld>>
overlay == <<isVisible, closeOnEscape, closeOnClickOutside, onClose, id,
             visible, docKeydown, a11yProps>>
provider == <<defaultProps, providerIsVisible, sheetProps, initialSheetProps,
              lastCall, passed, hookResult>>
harness == <<snapArgs, snapResult, dimArgs, dimResult, provider>>
vars == <<props, sheetHeight, isDragging, refs, rendered, innerHeight, listeners,
          pointers, mounted, lastOp, calls, dragBalance, defaultPrevented, keyRun,
          overlay, harness>>

(***************************************************************************)
(* Rendering: useCallback keeps an instance while its dependency list is   *)
(* unchanged and creates a fresh one otherwise.                            *)
(***************************************************************************)
SeqIds(s) == {s[i].id : i \in 1..Len(s)}

\* identities of mousemove closures that something still refers to
MoveIdsInUse(old) ==
  {old.move.id, old.down.move.id, old.up.move, old.down.up.move}
    \cup SeqIds(docMouseMove) \cup {docMouseUp[i].move : i \in 1..Len(docMouseUp)}

UpIdsInUse(old) == {old.up.id, old.down.up.id} \cup SeqIds(docMouseUp)

FreshId(used) == CHOOSE n \in 0..Cardinality(used) : n \notin used

\* useDragHandlers.ts 138-167: handleMouseMove = useCallback(..., [isDraggable,
\* isDragging, dragStartY, dragStartHeight, minHeightPx, maxHeightPx,
\* setSheetHeight, onHeightChange])
RenderMouseMove(old, n, cbs) ==
  IF \/ old.move.isDraggable # n.isDraggable
     \/ old.move.isDragging # n.isDragging
     \/ old.move.minHeightPx # n.minHeightPx
     \/ old.move.maxHeightPx # n.maxHeightPx
     \/ "onHeightChange" \in cbs
  THEN [id |-> FreshId(MoveIdsInUse(old)), isDraggable |-> n.isDraggable,
        isDragging |-> n.isDragging, minHeightPx |-> n.minHeightPx,
        maxHeightPx |-> n.maxHeightPx]
  ELSE old.move

\* useDragHandlers.ts 170-200: handleMouseUp = useCallback(..., [isDraggable,
\* enableSnapping, findNearestSnapPoint, sheetHeight, setSheetHeight,
\* onHeightChange, onDragEnd, setIsDragging]); findNearestSnapPoint itself
\* is memoised on [enableSnapping, onSnap, snapPoints] (BottomSheet.tsx 120).
\* The closure refers to the handleMouseMove of the render that created it.
RenderMouseUp(old, n, cbs, move) ==
  IF \/ old.up.isDraggable # n.isDraggable
     \/ old.up.enableSnapping # n.enableSnapping
     \/ old.up.sheetHeight # n.sheetHeight
     \/ cbs \cap {"onSnap", "snapPoints", "onHeightChange", "onDragEnd"} # {}
  THEN [id |-> FreshId(UpIdsInUse(old)), isDraggable |-> n.isDraggable,
        enableSnapping |-> n.enableSnapping, snapPoints |-> n.snapPoints,
        sheetHeight |-> n.sheetHeight, move |-> move.id]
  ELSE old.up

\* useDragHandlers.ts 110-135: handleMouseDown = useCallback(..., [isDraggable,
\* sheetHeight, onDragStart, setIsDragging, dragStartY, dragStartHeight]).
\* The closure refers to the handleMouseMove and handleMouseUp of the render
\* that created it, which are not in its dependency list.
RenderMouseDown(old, n, cbs, move, up) ==
  IF \/ old.down.isDraggable # n.isDraggable
     \/ old.down.sheetHeight # n.sheetHeight
     \/ "onDragStart" \in cbs
  THEN [isDraggable |-> n.isDraggable, sheetHeight |-> n.sheetHeight,
        move |-> move, up |-> up]
  ELSE old.down

\* one render of the component with the values n; cbs names the callback
\* props (and "snapPoints", an array) whose identity the host changed; a
\* defaulted snapPoints changes identity on every render
Render(old, n, cbs) ==
  LET changed == IF snapPointsPassed THEN cbs ELSE cbs \cup {"snapPoints"}
      move == RenderMouseMove(old, n, changed)
      up == RenderMouseUp(old, n, changed, move)
      down == RenderMouseDown(old, n, changed, move, up)
  IN [down |-> down, move |-> move, up |-> up]

Closures == [down |-> handleMouseDown, move |-> handleMouseMove, up |-> handleMouseUp]

\* the values one render reads (BottomSheet.tsx 85-86 compute the bounds
\* from window.innerHeight during the render)
RenderInput(draggable, dragging, height, snapping, points, minH, maxH, V) ==
  [isDraggable |-> draggable, isDragging |-> dragging, sheetHeight |-> height,
   enableSnapping |-> snapping, snapPoints |-> points,
   minHeightPx |-> getPixelValue(minH, V), maxHeightPx |-> getPixelValue(maxH, V)]

(***************************************************************************)
(* Function identity.  Only equality of identities is observable (by       *)
(* addEventListener and removeEventListener), so after every step the      *)
(* closures are renamed in a fixed order of appearance; a reference to a   *)
(* closure that nothing holds any more is renamed DeadId.                  *)
(***************************************************************************)
DeadId == 0 - 1

NameIn(L, fid) ==
  IF \E i \in 1..Len(L) : L[i] = fid
  THEN (CHOOSE i \in 1..Len(L) : L[i] = fid /\ \A j \in 1..(i - 1) : L[j] # fid) - 1
  ELSE DeadId

Canon(m) ==
  LET LM == <<m.move.id, m.down.move.id>> \o [i \in 1..Len(m.docMove) |-> m.docMove[i].id]
      LU == <<m.up.id, m.down.up.id>> \o [i \in 1..Len(m.docUp) |-> m.docUp[i].id]
      M(f) == [f EXCEPT !.id = NameIn(LM, f.id)]
      U(f) == [f EXCEPT !.id = NameIn(LU, f.id), !.move = NameIn(LM, f.move)]
  IN [move |-> M(m.move),
      up |-> U(m.up),
      down |-> [m.down EXCEPT !.move = M(m.down.move), !.up = U(m.down.up)],
      docMove |-> [i \in 1..Len(m.docMove) |-> M(m.docMove[i])],
      docUp |-> [i \in 1..Len(m.docUp) |-> U(m.docUp[i])]]

\* the closures r of a render and the document's listeners, as the next state
SetMouse(r, dm, du) ==
  LET m == Canon([down |-> r.down, move |-> r.move, up |-> r.up,
                  docMove |-> dm, docUp |-> du])
  IN /\ handleMouseDown' = m.down
     /\ handleMouseMove' = m.move
     /\ handleMouseUp' = m.up
     /\ docMouseMove' = m.docMove
     /\ docMouseUp' = m.docUp

(***************************************************************************)
(* Committing a handler's state updates.  React re-renders only when a     *)
(* state value changed (Object.is); the re-render recomputes the pixel     *)
(* bounds and the memoised handlers.  dm and du are the document's         *)
(* listeners as the handler left them.                                     *)
(***************************************************************************)
Commit(h, d, V, dm, du) ==
  LET n == RenderInput(isDraggable, d, h, enableSnapping, snapPoints,
                       minHeight, maxHeight, V)
  IN /\ sheetHeight' = h
     /\ isDragging' = d
     /\ IF h # sheetHeight \/ d # isDragging
        THEN /\ minHeightPx' = n.minHeightPx
             /\ maxHeightPx' = n.maxHeightPx
             /\ SetMouse(Render(Closures, n, {}), dm, du)
        ELSE /\ UNCHANGED <<minHeightPx, maxHeightPx>>
             /\ SetMouse(Closures, dm, du)

\* a re-render caused by the host: new props np, callback identities cbs
HostRender(np, cbs) ==
  LET n == RenderInput(np.isDraggable, isDragging, sheetHeight, np.enableSnapping,
                       np.snapPoints, np.minHeight, np.maxHeight, innerHeight)
  IN /\ minHeightPx' = n.minHeightPx
     /\ maxHeightPx' = n.maxHeightPx
     /\ SetMouse(Render(Closures, n, cbs), docMouseMove, docMouseUp)

Props == [isDraggable |-> isDraggable, enableSnapping |-> enableSnapping,
          snapPoints |-> snapPoints, minHeight |-> minHeight, maxHeight |-> maxHeight]

\* the host's tally of onDragStart minus onDragEnd; once negative it stays so
Tally(starts, ends) ==
  IF dragBalance < 0 \/ dragBalance + starts - ends < 0 THEN 0 - 1
  ELSE dragBalance + starts - ends

Observed(op, cs, starts, ends, prevented) ==
  /\ lastOp' = op
  /\ calls' = cs
  /\ dragBalance' = Tally(starts, ends)
  /\ defaultPrevented' = prevented
  /\ keyRun' = IF op # "keydown" THEN 0
               ELSE IF keyRun < MaxKeyRun THEN keyRun + 1 ELSE keyRun

\* an event on which no handler calls preventDefault
Observe(op, cs, starts, ends) == Observed(op, cs, starts, ends, FALSE)

(***************************************************************************)
(* Visibility and accessibility.  A prop the host may leave out is a       *)
(* sequence: empty when left out, else holding the value passed.           *)
(***************************************************************************)
showBackdrop == TRUE

\* the id values a host passes: none, the empty string, a name
Ids == {<<>>, <<"">>, <<"sheet">>}
\* the onClose functions a host passes: none, or one of two functions
OnCloses == {<<>>, <<"f">>, <<"g">>}

\* JavaScript truthiness of an optional string prop
Truthy(v) == v # <<>> /\ v[1] # ""

\* attributes whose aria-hidden follows visible instead of negating it
useA11yPropsNotNegated(i, v) ==
  LET baseId == IF Truthy(i) THEN i[1] ELSE "bottom-sheet"
      base == [role |-> "dialog", ariaModal |-> TRUE, ariaHidden |-> v]
  IN IF Truthy(i)
     THEN [role |-> base.role, ariaModal |-> base.ariaModal,
           ariaHidden |-> base.ariaHidden,
           id |-> baseId, ariaLabelledby |-> <<baseId, "-title">>]
     ELSE base

\* useA11yProps.ts 10-26: the attributes computed for id and visible
useA11yProps(i, v) ==
  LET baseId == IF Truthy(i) THEN i[1] ELSE "bottom-sheet"
      base == [role |-> "dialog", ariaModal |-> TRUE, ariaHidden |-> ~v]
  IN IF Truthy(i)
     THEN [role |-> base.role, ariaModal |-> base.ariaModal,
           ariaHidden |-> base.ariaHidden,
           id |-> baseId, ariaLabelledby |-> <<baseId, "-title">>]
     ELSE base

\* BottomSheet.tsx 159-163: the handleEscapeKey created by one run of the
\* effect, with the values it closed over
EscapeListener(coe, vis, oc) == [closeOnEscape |-> coe, visible |-> vis, onClose |-> oc]

\* an effect whose previous run is never cleaned up
EscapeEffectNoCleanup(ls, old, new) ==
  IF old = new THEN ls
  ELSE IF new.closeOnEscape THEN Append(ls, new) ELSE ls

\* BottomSheet.tsx 156-174: the effect's dependencies went from the values
\* of old to those of new: the cleanup of the previous run, then the new run
EscapeEffect(ls, old, new) ==
  IF old = new THEN ls
  ELSE LET cleaned == IF old.closeOnEscape
                      THEN SelectSeq(ls, LAMBDA f : f # old) ELSE ls
       IN IF new.closeOnEscape THEN Append(cleaned, new) ELSE cleaned

\* a render after which no effect copies isVisible into visible
OverlayRenderKeepsVisible(np) ==
  /\ isVisible' = np.isVisible
  /\ closeOnEscape' = np.closeOnEscape
  /\ closeOnClickOutside' = np.closeOnClickOutside
  /\ onClose' = np.onClose
  /\ id' = np.id
  /\ visible' = visible
  /\ docKeydown' = EscapeEffect(docKeydown,
                                EscapeListener(closeOnEscape, visible, onClose),
                                EscapeListener(np.closeOnEscape, visible, np.onClose))
  /\ a11yProps' = IF np.id # id THEN useA11yProps(np.id, visible) ELSE a11yProps

\* a render with the visibility props np (and the effects it triggers:
\* lines 177-179 copy isVisible into visible when isVisible changed, which
\* re-renders and re-runs the Escape effect and the useMemo of useA11yProps)
OverlayRender(np) ==
  LET vis == IF np.isVisible # isVisible THEN np.isVisible ELSE visible
  IN /\ isVisible' = np.isVisible
     /\ closeOnEscape' = np.closeOnEscape
     /\ closeOnClickOutside' = np.closeOnClickOutside
     /\ onClose' = np.onClose
     /\ id' = np.id
     /\ visible' = vis
     /\ docKeydown' = EscapeEffect(docKeydown,
                                   EscapeListener(closeOnEscape, visible, onClose),
                                   EscapeListener(np.closeOnEscape, vis, np.onClose))
     /\ a11yProps' = IF np.id # id \/ vis # visible
                     THEN useA11yProps(np.id, vis) ELSE a11yProps

OverlayProps == [isVisible |-> isVisible, closeOnEscape |-> closeOnEscape,
                 closeOnClickOutside |-> closeOnClickOutside, onClose |-> onClose,
                 id |-> id]

(***************************************************************************)
(* Construction: props with the values of the defaults (BottomSheet.tsx    *)
(* 11-17), snapPoints either passed by the host or defaulted; the mount    *)
(* effect (lines 69-73) has set the height to the initial dimension.       *)
(***************************************************************************)
InitClosures(n) ==
  LET move == [id |-> 0, isDraggable |-> n.isDraggable, isDragging |-> n.isDragging,
               minHeightPx |-> n.minHeightPx, maxHeightPx |-> n.maxHeightPx]
      up == [id |-> 0, isDraggable |-> n.isDraggable,
             enableSnapping |-> n.enableSnapping, snapPoints |-> n.snapPoints,
             sheetHeight |-> n.sheetHeight, move |-> 0]
  IN [move |-> move, up |-> up,
      down |-> [isDraggable |-> n.isDraggable, sheetHeight |-> n.sheetHeight,
                move |-> move, up |-> up]]

InitSheet ==
  /\ initialHeight = Pct(30)
  /\ minHeight = Pct(10)
  /\ maxHeight = Pct(90)
  /\ isDraggable = TRUE
  /\ enableSnapping = TRUE
  /\ snapPoints = <<30, 60, 90>>
  /\ snapPointsPassed \in BOOLEAN
  /\ innerHeight = 1000
  /\ sheetHeight = getInitialHeightValue(initialHeight, innerHeight)
  /\ isDragging = FALSE
  /\ dragStartY = 0
  /\ dragStartHeight = 0
  /\ LET n == RenderInput(isDraggable, isDragging, sheetHeight, enableSnapping,
                          snapPoints, minHeight, maxHeight, innerHeight)
         c == InitClosures(n)
     IN /\ minHeightPx = n.minHeightPx
        /\ maxHeightPx = n.maxHeightPx
        /\ handleMouseDown = c.down
        /\ handleMouseMove = c.move
        /\ handleMouseUp = c.up
  /\ docMouseMove = <<>>
  /\ docMouseUp = <<>>
  /\ touchHeld = FALSE
  /\ mouseHeld = FALSE
  /\ mounted = TRUE
  /\ lastOp = "mount"
  /\ calls = <<>>
  /\ dragBalance = 0
  /\ defaultPrevented = FALSE
  /\ keyRun = 0
  /\ isVisible = TRUE
  /\ closeOnEscape = TRUE
  /\ closeOnClickOutside = TRUE
  /\ onClose = <<"f">>
  /\ id = <<>>
  /\ visible = isVisible
  /\ docKeydown = <<EscapeListener(closeOnEscape, visible, onClose)>>
  /\ a11yProps = useA11yProps(id, visible)

NoDim == [value |-> Pct(30), V |-> 1000]
NoCall == [height |-> 0, snapping |-> FALSE, points |-> <<>>, V |-> 1000]

(***************************************************************************)
(* The provider's props objects (Partial<BottomSheetProps>): a function    *)
(* from the keys that are present to their values.  A key can be present   *)
(* with the value undefined.                                               *)
(***************************************************************************)
EmptyObject == [k \in {} |-> ""]
SheetPropHeights == {"60%", "undefined"}
SheetPropSnapping == {FALSE}
PartialProps ==
  {EmptyObject} \cup {[initialHeight |-> h] : h \in SheetPropHeights}
    \cup {[enableSnapping |-> e] : e \in SheetPropSnapping}
    \cup {[initialHeight |-> h, enableSnapping |-> e] :
            h \in SheetPropHeights, e \in SheetPropSnapping}
\* the defaultProps a host mounts the provider with; the first is the
\* default of the parameter (BottomSheetContext.tsx 31)
DefaultPropsSets == {EmptyObject, [initialHeight |-> "30%", enableSnapping |-> TRUE]}
\* the argument lists of showBottomSheet: no argument, or one props object
ShowArgs == {<<>>} \cup {<<p>> : p \in PartialProps}

\* { ...prev, ...props }
Spread(prev, p) ==
  [k \in DOMAIN prev \cup DOMAIN p |-> IF k \in DOMAIN p THEN p[k] ELSE prev[k]]

NoCallYet == [op |-> "mount", args |-> <<>>]

\* BottomSheetContext.tsx 29-35: the state of a provider mounted with d
InitProvider(d) ==
  /\ defaultProps = d
  /\ providerIsVisible = FALSE
  /\ sheetProps = d
  /\ initialSheetProps = d
  /\ lastCall = NoCallYet
  /\ passed = <<>>
  /\ hookResult = <<>>

Init ==
  /\ InitSheet
  /\ InitProvider(EmptyObject)
  /\ snapArgs = NoCall
  /\ snapResult = <<>>
  /\ dimArgs = NoDim
  /\ dimResult = <<>>

(***************************************************************************)
(* Touch handlers, bound to the handle on every render                     *)
(* (BottomSheet.tsx 272-274), so always the closures of the last render.   *)
(***************************************************************************)
\* a touchstart that starts the drag but leaves dragStartHeight as it was
TouchStartKeepsHeight(y) ==
  IF ~isDraggable \/ ~isBrowser
  THEN [startY |-> dragStartY, startHeight |-> dragStartHeight,
        dragging |-> isDragging, calls |-> <<>>]
  ELSE [startY |-> y, startHeight |-> dragStartHeight,
        dragging |-> TRUE, calls |-> << <<"onDragStart">> >>]

\* useDragHandlers.ts 30-48: what a touchstart at y leaves behind
TouchStartResult(y) ==
  IF ~isDraggable \/ ~isBrowser
  THEN [startY |-> dragStartY, startHeight |-> dragStartHeight,
        dragging |-> isDragging, calls |-> <<>>]
  ELSE [startY |-> y, startHeight |-> sheetHeight,
        dragging |-> TRUE, calls |-> << <<"onDragStart">> >>]

handleTouchStart(y) ==
  LET r == TouchStartResult(y)
  IN /\ mounted /\ ~touchHeld
     /\ Len(r.calls) > 0 => dragBalance < MaxBalance
     /\ touchHeld' = TRUE
     /\ dragStartY' = r.startY
     /\ dragStartHeight' = r.startHeight
     /\ Commit(sheetHeight, r.dragging, innerHeight, docMouseMove, docMouseUp)
     /\ Observe("touchstart", r.calls, Len(r.calls), 0)
     /\ UNCHANGED <<props, innerHeight, mouseHeld, mounted, overlay, harness>>

\* a touchmove that calls preventDefault before its guard
TouchMovePreventsAlways(y) ==
  IF ~isDraggable \/ ~isDragging \/ ~isBrowser
  THEN [height |-> sheetHeight, calls |-> <<>>, prevented |-> TRUE]
  ELSE LET deltaY == JsSub(dragStartY, y)
           newHeight == ClampHeight(JsAdd(dragStartHeight, deltaY),
                                    minHeightPx, maxHeightPx)
       IN [height |-> newHeight, calls |-> << <<"onHeightChange", newHeight>> >>,
           prevented |-> TRUE]

\* useDragHandlers.ts 51-81: the height a touchmove at y sets, the
\* callbacks it invokes, and whether it calls e.preventDefault() (line 56)
TouchMoveResult(y) ==
  IF ~isDraggable \/ ~isDragging \/ ~isBrowser
  THEN [height |-> sheetHeight, calls |-> <<>>, prevented |-> FALSE]
  ELSE LET deltaY == JsSub(dragStartY, y)
           newHeight == ClampHeight(JsAdd(dragStartHeight, deltaY),
                                    minHeightPx, maxHeightPx)
       IN [height |-> newHeight, calls |-> << <<"onHeightChange", newHeight>> >>,
           prevented |-> TRUE]

handleTouchMove(y) ==
  LET r == TouchMoveResult(y)
  IN /\ mounted /\ touchHeld
     /\ Commit(r.height, isDragging, innerHeight, docMouseMove, docMouseUp)
     /\ Observed("touchmove", r.calls, 0, 0, r.prevented)
     /\ UNCHANGED <<props, refs, innerHeight, pointers, mounted, overlay, harness>>

\* the body shared by handleTouchEnd (84-107) and handleMouseUp (170-184):
\* the height it sets and the callbacks it invokes, for the sheetHeight,
\* enableSnapping and snapPoints the closure holds
EndOfDrag(height, snapping, points, V) ==
  IF snapping
  THEN LET r == findNearestSnapPoint(height, snapping, points, V)
       IN [height |-> r.height,
           calls |-> [i \in 1..Len(r.onSnap) |-> <<"onSnap", r.onSnap[i]>>]
                       \o << <<"onHeightChange", r.height>>, <<"onDragEnd">> >>]
  ELSE [height |-> height, calls |-> << <<"onDragEnd">> >>]

\* useDragHandlers.ts 84-107: what a touchend leaves behind
TouchEndResult ==
  IF ~isDraggable \/ ~isBrowser
  THEN [height |-> sheetHeight, dragging |-> isDragging, calls |-> <<>>, ends |-> 0]
  ELSE LET e == EndOfDrag(sheetHeight, enableSnapping, snapPoints, innerHeight)
       IN [height |-> e.height, dragging |-> FALSE, calls |-> e.calls, ends |-> 1]

handleTouchEnd ==
  LET r == TouchEndResult
  IN /\ mounted /\ touchHeld
     /\ touchHeld' = FALSE
     /\ Commit(r.height, r.dragging, innerHeight, docMouseMove, docMouseUp)
     /\ Observe("touchend", r.calls, 0, r.ends)
     /\ UNCHANGED <<props, refs, innerHeight, mouseHeld, mounted, overlay, harness>>

(***************************************************************************)
(* Mouse handlers.  mousedown is bound to the handle (BottomSheet.tsx      *)
(* 275); mousemove and mouseup are delivered to whatever closures are      *)
(* registered on the document.                                             *)
(***************************************************************************)
\* document.addEventListener: registering a registered function is a no-op
AddListener(ls, f) == IF f.id \in SeqIds(ls) THEN ls ELSE Append(ls, f)
\* document.removeEventListener of the function with identity fid
RemoveListener(ls, fid) == SelectSeq(ls, LAMBDA f : f.id # fid)

\* useDragHandlers.ts 110-135
OnMouseDown(y) ==
  /\ mounted /\ ~mouseHeld
  /\ mouseHeld' = TRUE
  /\ IF ~handleMouseDown.isDraggable \/ ~isBrowser
     THEN /\ Observe("mousedown", <<>>, 0, 0)
          /\ UNCHANGED <<sheetHeight, isDragging, refs, rendered, listeners>>
     ELSE /\ dragBalance < MaxBalance
          /\ Len(AddListener(docMouseMove, handleMouseDown.move)) <= MaxListeners
          /\ dragStartY' = y
          /\ dragStartHeight' = handleMouseDown.sheetHeight
          /\ Commit(sheetHeight, TRUE, innerHeight,
                    AddListener(docMouseMove, handleMouseDown.move),
                    AddListener(docMouseUp, handleMouseDown.up))
          /\ Observe("mousedown", << <<"onDragStart">> >>, 1, 0)
  /\ UNCHANGED <<props, innerHeight, touchHeld, mounted, overlay, harness>>

\* useDragHandlers.ts 138-167, run for the closure f: the height it sets,
\* or the height h it leaves
MouseMoveHeight(f, y, h) ==
  IF ~f.isDraggable \/ ~f.isDragging \/ ~isBrowser THEN h
  ELSE ClampHeight(JsAdd(dragStartHeight, JsSub(dragStartY, y)),
                   f.minHeightPx, f.maxHeightPx)

MouseMoveCalls(f, y) ==
  IF ~f.isDraggable \/ ~f.isDragging \/ ~isBrowser THEN <<>>
  ELSE << <<"onHeightChange", MouseMoveHeight(f, y, 0)>> >>

\* one mousemove event dispatched to the listeners ls in registration order
RECURSIVE DispatchMove(_, _, _)
DispatchMove(ls, y, acc) ==
  IF ls = <<>> THEN acc
  ELSE DispatchMove(Tail(ls), y,
         [height |-> MouseMoveHeight(Head(ls), y, acc.height),
          calls |-> acc.calls \o MouseMoveCalls(Head(ls), y)])

DocMouseMove(y) ==
  LET r == DispatchMove(docMouseMove, y, [height |-> sheetHeight, calls |-> <<>>])
  IN /\ mounted
     /\ Commit(r.height, isDragging, innerHeight, docMouseMove, docMouseUp)
     /\ Observed("mousemove", r.calls, 0, 0, r.calls # <<>>)
     /\ UNCHANGED <<props, refs, innerHeight, pointers, mounted, overlay, harness>>

\* useDragHandlers.ts 170-200, run for the closure f on the running state acc
MouseUpStep(f, acc) ==
  IF ~f.isDraggable \/ ~isBrowser THEN acc
  ELSE LET e == EndOfDrag(f.sheetHeight, f.enableSnapping, f.snapPoints, innerHeight)
       IN [height |-> IF f.enableSnapping THEN e.height ELSE acc.height,
           dragging |-> FALSE,
           calls |-> acc.calls \o e.calls,
           ends |-> acc.ends + 1,
           moves |-> RemoveListener(acc.moves, f.move),
           ups |-> RemoveListener(acc.ups, f.id)]

\* one mouseup event dispatched to the listeners ls in registration order
RECURSIVE DispatchUp(_, _)
DispatchUp(ls, acc) ==
  IF ls = <<>> THEN acc ELSE DispatchUp(Tail(ls), MouseUpStep(Head(ls), acc))

DocMouseUp ==
  LET r == DispatchUp(docMouseUp,
                      [height |-> sheetHeight, dragging |-> isDragging, calls |-> <<>>,
                       ends |-> 0, moves |-> docMouseMove, ups |-> docMouseUp])
  IN /\ mounted /\ mouseHeld
     /\ mouseHeld' = FALSE
     /\ Commit(r.height, r.dragging, innerHeight, r.moves, r.ups)
     /\ Observe("mouseup", r.calls, 0, r.ends)
     /\ UNCHANGED <<props, refs, innerHeight, touchHeld, mounted, overlay, harness>>

(***************************************************************************)
(* Keyboard toggle on the handle, BottomSheet.tsx 280-291, and the         *)
(* resize listener, BottomSheet.tsx 181-193.                               *)
(***************************************************************************)
\* a toggle that ignores the key while dragging is disabled
HandleKeyDownIfDraggable ==
  LET h == IF ~isDraggable THEN sheetHeight
           ELSE IF JsLt(sheetHeight, maxHeightPx) THEN maxHeightPx ELSE minHeightPx
  IN /\ mounted
     /\ Commit(h, isDragging, innerHeight, docMouseMove, docMouseUp)
     /\ Observe("keydown",
                IF isDraggable THEN << <<"onHeightChange", h>> >> ELSE <<>>, 0, 0)
     /\ UNCHANGED <<props, refs, innerHeight, pointers, mounted, overlay, harness>>

HandleKeyDown ==
  LET h == IF JsLt(sheetHeight, maxHeightPx) THEN maxHeightPx ELSE minHeightPx
  IN /\ mounted
     /\ Commit(h, isDragging, innerHeight, docMouseMove, docMouseUp)
     /\ Observe("keydown", << <<"onHeightChange", h>> >>, 0, 0)
     /\ UNCHANGED <<props, refs, innerHeight, pointers, mounted, overlay, harness>>

\* a resize that rescales the current height with the viewport
handleResizeRescales(V) ==
  /\ mounted
  /\ innerHeight' = V
  /\ Commit(IF IsNum(sheetHeight) THEN (sheetHeight * V) \div innerHeight ELSE NaN,
            isDragging, V, docMouseMove, docMouseUp)
  /\ Observe("resize", <<>>, 0, 0)
  /\ UNCHANGED <<props, refs, pointers, mounted, overlay, harness>>

\* BottomSheet.tsx 182-193; V is window.innerHeight after the resize (the
\* same as before when only the width changed)
handleResize(V) ==
  /\ mounted
  /\ innerHeight' = V
  /\ Commit(getInitialHeightValue(initialHeight, V), isDragging, V,
            docMouseMove, docMouseUp)
  /\ Observe("resize", <<>>, 0, 0)
  /\ UNCHANGED <<props, refs, pointers, mounted, overlay, harness>>

(***************************************************************************)
(* Host updates: the parent re-renders the sheet with a changed prop.      *)
(***************************************************************************)
HostFrame == UNCHANGED <<sheetHeight, isDragging, refs, innerHeight,
                         pointers, mounted, overlay, harness>>

SetIsDraggable(b) ==
  /\ mounted /\ b # isDraggable
  /\ isDraggable' = b
  /\ HostRender([Props EXCEPT !.isDraggable = b], {})
  /\ Observe("props", <<>>, 0, 0)
  /\ HostFrame
  /\ UNCHANGED <<initialHeight, minHeight, maxHeight, enableSnapping, snapPoints,
                 snapPointsPassed>>

SetEnableSnapping(b) ==
  /\ mounted /\ b # enableSnapping
  /\ enableSnapping' = b
  /\ HostRender([Props EXCEPT !.enableSnapping = b], {})
  /\ Observe("props", <<>>, 0, 0)
  /\ HostFrame
  /\ UNCHANGED <<initialHeight, minHeight, maxHeight, isDraggable, snapPoints,
                 snapPointsPassed>>

\* a minHeight change that also resets the height to the initial dimension
SetMinHeightResets(v) ==
  /\ mounted /\ v # minHeight
  /\ minHeight' = v
  /\ HostRender([Props EXCEPT !.minHeight = v], {})
  /\ Observe("props", <<>>, 0, 0)
  /\ sheetHeight' = getInitialHeightValue(initialHeight, innerHeight)
  /\ UNCHANGED <<isDragging, refs, innerHeight, pointers, mounted, overlay, harness>>
  /\ UNCHANGED <<initialHeight, maxHeight, isDraggable, enableSnapping, snapPoints,
                 snapPointsPassed>>

SetMinHeight(v) ==
  /\ mounted /\ v # minHeight
  /\ minHeight' = v
  /\ HostRender([Props EXCEPT !.minHeight = v], {})
  /\ Observe("props", <<>>, 0, 0)
  /\ HostFrame
  /\ UNCHANGED <<initialHeight, maxHeight, isDraggable, enableSnapping, snapPoints,
                 snapPointsPassed>>

SetMaxHeight(v) ==
  /\ mounted /\ v # maxHeight
  /\ maxHeight' = v
  /\ HostRender([Props EXCEPT !.maxHeight = v], {})
  /\ Observe("props", <<>>, 0, 0)
  /\ HostFrame
  /\ UNCHANGED <<initialHeight, minHeight, isDraggable, enableSnapping, snapPoints,
                 snapPointsPassed>>

\* a new array, whatever its contents
SetSnapPoints(v) ==
  /\ mounted /\ v # snapPoints
  /\ snapPoints' = v
  /\ HostRender([Props EXCEPT !.snapPoints = v], {"snapPoints"})
  /\ Observe("props", <<>>, 0, 0)
  /\ HostFrame
  /\ snapPointsPassed' = TRUE
  /\ UNCHANGED <<initialHeight, minHeight, maxHeight, isDraggable, enableSnapping>>

\* the host passes new function instances for the callbacks cbs
SetCallbacks(cbs) ==
  /\ mounted
  /\ HostRender(Props, cbs)
  /\ Observe("props", <<>>, 0, 0)
  /\ HostFrame
  /\ UNCHANGED props

\* a new initialHeight re-creates getInitialHeightValue, so the effect of
\* BottomSheet.tsx 69-73 runs after the render and sets the height
SetInitialHeight(v) ==
  LET h == getInitialHeightValue(v, innerHeight)
      n == RenderInput(isDraggable, isDragging, sheetHeight, enableSnapping,
                       snapPoints, minHeight, maxHeight, innerHeight)
      first == Render(Closures, n, {})
      second == IF h = sheetHeight THEN first
                ELSE Render(first, [n EXCEPT !.sheetHeight = h], {})
  IN /\ mounted /\ v # initialHeight
     /\ initialHeight' = v
     /\ sheetHeight' = h
     /\ minHeightPx' = n.minHeightPx
     /\ maxHeightPx' = n.maxHeightPx
     /\ SetMouse(second, docMouseMove, docMouseUp)
     /\ Observe("props", <<>>, 0, 0)
     /\ UNCHANGED <<minHeight, maxHeight, isDraggable, enableSnapping, snapPoints,
                    snapPointsPassed,
                    isDragging, refs, innerHeight, pointers, mounted, overlay, harness>>

\* the component is removed; no effect cleanup touches the mouse listeners
\* (BottomSheet.tsx 156-193 clean up keydown and resize only)
Unmount ==
  /\ mounted
  /\ mounted' = FALSE
  /\ docKeydown' = IF closeOnEscape
                   THEN SelectSeq(docKeydown,
                          LAMBDA f : f # EscapeListener(closeOnEscape, visible, onClose))
                   ELSE docKeydown
  /\ Observe("unmount", <<>>, 0, 0)
  /\ UNCHANGED <<props, sheetHeight, isDragging, refs, rendered, innerHeight,
                 listeners, pointers, harness,
                 isVisible, closeOnEscape, closeOnClickOutside, onClose, id,
                 visible, a11yProps>>

(***************************************************************************)
(* Close requests and visibility.                                          *)
(***************************************************************************)
\* a backdrop click that closes the sheet itself
handleBackdropClickHides ==
  /\ mounted
  /\ (isBrowser /\ visible) \/ showBackdrop
  /\ visible' = FALSE
  /\ Observe("click",
             IF closeOnClickOutside /\ onClose # <<>>
             THEN << <<"onClose", onClose[1]>> >> ELSE <<>>, 0, 0)
  /\ UNCHANGED <<props, sheetHeight, isDragging, refs, rendered, innerHeight,
                 listeners, pointers, mounted, harness,
                 isVisible, closeOnEscape, closeOnClickOutside, onClose, id,
                 docKeydown, a11yProps>>

\* a backdrop click that requests the close only while the sheet is shown
handleBackdropClickIfVisible ==
  /\ mounted
  /\ (isBrowser /\ visible) \/ showBackdrop
  /\ Observe("click",
             IF closeOnClickOutside /\ visible /\ onClose # <<>>
             THEN << <<"onClose", onClose[1]>> >> ELSE <<>>, 0, 0)
  /\ UNCHANGED <<props, sheetHeight, isDragging, refs, rendered, innerHeight,
                 listeners, pointers, mounted, overlay, harness>>

\* BottomSheet.tsx 149-153, bound to the backdrop (line 256), which is
\* rendered unless line 247 returns null
handleBackdropClick ==
  /\ mounted
  /\ (isBrowser /\ visible) \/ showBackdrop
  /\ Observe("click",
             IF closeOnClickOutside /\ onClose # <<>>
             THEN << <<"onClose", onClose[1]>> >> ELSE <<>>, 0, 0)
  /\ UNCHANGED <<props, sheetHeight, isDragging, refs, rendered, innerHeight,
                 listeners, pointers, mounted, overlay, harness>>

\* BottomSheet.tsx 159-163, run for the listener f
EscapeCalls(f) ==
  IF f.closeOnEscape /\ f.visible /\ f.onClose # <<>>
  THEN << <<"onClose", f.onClose[1]>> >> ELSE <<>>

\* one keydown of Escape dispatched to the document's listeners
RECURSIVE DispatchEscape(_)
DispatchEscape(ls) ==
  IF ls = <<>> THEN <<>> ELSE EscapeCalls(Head(ls)) \o DispatchEscape(Tail(ls))

handleEscapeKey ==
  /\ mounted
  /\ Observe("escape", DispatchEscape(docKeydown), 0, 0)
  /\ UNCHANGED <<props, sheetHeight, isDragging, refs, rendered, innerHeight,
                 listeners, pointers, mounted, overlay, harness>>

\* the host re-renders the sheet with the visibility props np
OverlayUpdate(np) ==
  /\ mounted /\ np # OverlayProps
  /\ OverlayRender(np)
  /\ HostRender(Props, {})
  /\ Observe("props", <<>>, 0, 0)
  /\ UNCHANGED <<props, sheetHeight, isDragging, refs, innerHeight, pointers,
                 mounted, harness>>

SetIsVisible(b) == OverlayUpdate([OverlayProps EXCEPT !.isVisible = b])
SetCloseOnEscape(b) == OverlayUpdate([OverlayProps EXCEPT !.closeOnEscape = b])
SetCloseOnClickOutside(b) == OverlayUpdate([OverlayProps EXCEPT !.closeOnClickOutside = b])
SetOnClose(v) == OverlayUpdate([OverlayProps EXCEPT !.onClose = v])
SetId(v) == OverlayUpdate([OverlayProps EXCEPT !.id = v])

(***************************************************************************)
(* Specifications.  Spec is the drag state machine: both pointer streams   *)
(* and host re-renders with new callbacks.  GateSpec is the drag state     *)
(* machine under the isDraggable gate.  SheetSpec is the height tracker:   *)
(* touch drags, the keyboard toggle, resize, and changes of the maxHeight  *)
(* prop.                                                                   *)
(***************************************************************************)
Next ==
  \/ \E y \in Ys : handleTouchStart(y)
  \/ \E y \in Ys : handleTouchMove(y)
  \/ handleTouchEnd
  \/ \E y \in Ys : OnMouseDown(y)
  \/ \E y \in Ys : DocMouseMove(y)
  \/ DocMouseUp
  \/ \E cbs \in CallbackChanges : SetCallbacks(cbs)

Spec == Init /\ [][Next]_vars

\* TeardownSpec is the removal of the component: mouse gestures, the
\* isDraggable and closeOnEscape props, Escape presses, and the unmount
TeardownNext ==
  \/ \E y \in Ys : OnMouseDown(y)
  \/ \E y \in Ys : DocMouseMove(y)
  \/ DocMouseUp
  \/ \E b \in BOOLEAN : SetIsDraggable(b)
  \/ \E b \in BOOLEAN : SetCloseOnEscape(b)
  \/ handleEscapeKey
  \/ Unmount

TeardownSpec == Init /\ [][TeardownNext]_vars

SheetNext ==
  \/ \E y \in Ys : handleTouchStart(y)
  \/ \E y \in Ys : handleTouchMove(y)
  \/ handleTouchEnd
  \/ HandleKeyDown
  \/ \E V \in Viewports : handleResize(V)
  \/ \E v \in MaxHeights : SetMaxHeight(v)

\* the host passes the snapPoints array
SheetInit == Init /\ snapPointsPassed

SheetSpec == SheetInit /\ [][SheetNext]_vars

GateNext ==
  \/ \E y \in Ys : handleTouchStart(y)
  \/ \E y \in Ys : handleTouchMove(y)
  \/ handleTouchEnd
  \/ \E y \in Ys : OnMouseDown(y)
  \/ \E y \in Ys : DocMouseMove(y)
  \/ DocMouseUp
  \/ \E b \in BOOLEAN : SetIsDraggable(b)

GateSpec == SheetInit /\ [][GateNext]_vars

\* PointsSpec is the sheet under changes of the snap point list, the empty
\* list included: touch drags, and the snapPoints and enableSnapping props
PointsNext ==
  \/ \E y \in Ys : handleTouchStart(y)
  \/ \E y \in Ys : handleTouchMove(y)
  \/ handleTouchEnd
  \/ \E v \in SnapSets : SetSnapPoints(v)
  \/ \E b \in BOOLEAN : SetEnableSnapping(b)

PointsSpec == Init /\ [][PointsNext]_vars

\* SnappingSpec is the drag state machine under the enableSnapping gate:
\* touch drags, mouse presses and releases, and changes of the
\* enableSnapping prop
SnappingNext ==
  \/ \E y \in Ys : handleTouchStart(y)
  \/ \E y \in Ys : handleTouchMove(y)
  \/ handleTouchEnd
  \/ \E y \in Ys : OnMouseDown(y)
  \/ DocMouseUp
  \/ \E b \in BOOLEAN : SetEnableSnapping(b)

SnappingSpec == SheetInit /\ [][SnappingNext]_vars

\* ConfigSpec is the height tracker under changes of the dimension props:
\* touch drags, resize, and the initialHeight, minHeight and maxHeight props
ConfigNext ==
  \/ \E y \in Ys : handleTouchStart(y)
  \/ \E y \in Ys : handleTouchMove(y)
  \/ handleTouchEnd
  \/ \E V \in Viewports : handleResize(V)
  \/ \E v \in InitialHeights : SetInitialHeight(v)
  \/ \E v \in MinHeights : SetMinHeight(v)
  \/ \E v \in MaxHeights : SetMaxHeight(v)

ConfigSpec == SheetInit /\ [][ConfigNext]_vars

(***************************************************************************)
(* VisSpec is the visibility machine: the host's visibility props, close   *)
(* requests by backdrop click and Escape, with touch drags, resize and     *)
(* teardown in between.                                                    *)
(***************************************************************************)
VisNext ==
  \/ handleBackdropClick
  \/ handleEscapeKey
  \/ \E b \in BOOLEAN : SetIsVisible(b)
  \/ \E b \in BOOLEAN : SetCloseOnEscape(b)
  \/ \E b \in BOOLEAN : SetCloseOnClickOutside(b)
  \/ \E v \in OnCloses : SetOnClose(v)
  \/ \E y \in Ys : handleTouchStart(y)
  \/ \E y \in Ys : handleTouchMove(y)
  \/ handleTouchEnd
  \/ \E V \in Viewports : handleResize(V)
  \/ Unmount

VisSpec == SheetInit /\ [][VisNext]_vars

\* PersistSpec is the height between gestures: touch presses and releases,
\* the mouse stream, host re-renders with new callbacks, visibility flips
\* and close requests
PersistNext ==
  \/ \E y \in Ys : handleTouchStart(y)
  \/ handleTouchEnd
  \/ \E y \in Ys : OnMouseDown(y)
  \/ \E y \in Ys : DocMouseMove(y)
  \/ DocMouseUp
  \/ \E cbs \in CallbackChanges : SetCallbacks(cbs)
  \/ \E b \in BOOLEAN : SetIsVisible(b)
  \/ handleBackdropClick
  \/ handleEscapeKey

PersistSpec == SheetInit /\ [][PersistNext]_vars

\* ToggleSpec is the keyboard toggle of the handle: key presses under
\* changes of the minHeight, maxHeight and isDraggable props, with resizes
\* in between
ToggleNext ==
  \/ HandleKeyDown
  \/ \E v \in MinHeights : SetMinHeight(v)
  \/ \E v \in MaxHeights : SetMaxHeight(v)
  \/ \E b \in BOOLEAN : SetIsDraggable(b)
  \/ \E V \in Viewports : handleResize(V)

ToggleSpec == SheetInit /\ [][ToggleNext]_vars

\* A11ySpec is the accessibility attributes under changes of id and of
\* visibility, with close requests in between
A11yNext ==
  \/ \E v \in Ids : SetId(v)
  \/ \E b \in BOOLEAN : SetIsVisible(b)
  \/ \E b \in BOOLEAN : SetCloseOnEscape(b)
  \/ \E v \in OnCloses : SetOnClose(v)
  \/ handleBackdropClick
  \/ handleEscapeKey

A11ySpec == Init /\ [][A11yNext]_vars

(***************************************************************************)
(* The resolver on its own: SnapSpec starts from every height, snap point  *)
(* list and viewport of the sets below and calls findNearestSnapPoint      *)
(* once; snapResult is empty before the call and holds its result after.   *)
(***************************************************************************)
SnapPercents == {20, 30, 50, 70, 90}
SnapHeights == {0, 300, 450, 500, 520, 1000}

RECURSIVE SeqsUpTo(_, _)
SeqsUpTo(S, n) ==
  IF n = 0 THEN {<<>>}
  ELSE LET shorter == SeqsUpTo(S, n - 1)
       IN shorter \cup {Append(q, x) : q \in shorter, x \in S}

SnapCalls ==
  [height : SnapHeights, snapping : {TRUE},
   points : SeqsUpTo(SnapPercents, MaxSnapLen) \ {<<>>}, V : Viewports]

SnapInit ==
  /\ InitSheet
  /\ InitProvider(EmptyObject)
  /\ snapArgs \in SnapCalls
  /\ snapResult = <<>>
  /\ dimArgs = NoDim
  /\ dimResult = <<>>

ResolveSnap ==
  /\ snapResult = <<>>
  /\ snapResult' = <<findNearestSnapPoint(snapArgs.height, snapArgs.snapping,
                                          snapArgs.points, snapArgs.V)>>
  /\ UNCHANGED <<snapArgs, dimArgs, dimResult, props, sheetHeight, isDragging,
                 refs, rendered, innerHeight, listeners, pointers, mounted,
                 lastOp, calls, dragBalance, defaultPrevented, keyRun, overlay,
                 provider>>

SnapSpec == SnapInit /\ [][ResolveSnap]_vars

(***************************************************************************)
(* The conversions on their own: DimSpec starts from every dimension       *)
(* string and viewport of the sets below and converts the string once with *)
(* each of the two functions; dimResult is empty before and holds both     *)
(* results after.                                                          *)
(***************************************************************************)
DimViewports == {500, 800, 1000}
DimStrings ==
  {Pct(n * 10) : n \in 0..10} \cup {Px(n) : n \in {0, 120, 300, 1000}}
    \cup {Garbage, Bare(120)}

DimCalls == [value : DimStrings, V : DimViewports]

DimInit ==
  /\ InitSheet
  /\ InitProvider(EmptyObject)
  /\ snapArgs = NoCall
  /\ snapResult = <<>>
  /\ dimArgs \in DimCalls
  /\ dimResult = <<>>

ResolveDimension ==
  /\ dimResult = <<>>
  /\ dimResult' = <<[initial |-> getInitialHeightValue(dimArgs.value, dimArgs.V),
                     pixel |-> getPixelValue(dimArgs.value, dimArgs.V)]>>
  /\ UNCHANGED <<snapArgs, snapResult, dimArgs, props, sheetHeight, isDragging,
                 refs, rendered, innerHeight, listeners, pointers, mounted,
                 lastOp, calls, dragBalance, defaultPrevented, keyRun, overlay,
                 provider>>

DimSpec == DimInit /\ [][ResolveDimension]_vars

(***************************************************************************)
(* The provider on its own (context/BottomSheetContext.tsx).  ProviderSpec *)
(* mounts a BottomSheetProvider with one of the defaultProps above; its    *)
(* steps are the calls of showBottomSheet and hideBottomSheet by           *)
(* components below it, a re-render of the provider by its host with other *)
(* defaultProps, and the render of a component that calls useBottomSheet,  *)
(* below the provider or outside of every provider.                        *)
(***************************************************************************)
sheet == <<props, sheetHeight, isDragging, refs, rendered, innerHeight, listeners,
           pointers, mounted, lastOp, calls, dragBalance, defaultPrevented,
           keyRun, overlay>>
resolvers == <<snapArgs, snapResult, dimArgs, dimResult>>

\* a showBottomSheet that starts again from the provider's defaultProps
showBottomSheetFromDefaults(args) ==
  /\ args # <<>> => Len(passed) < MaxShown
  /\ sheetProps' = IF args # <<>> THEN Spread(defaultProps, args[1]) ELSE defaultProps
  /\ providerIsVisible' = TRUE
  /\ lastCall' = [op |-> "show", args |-> args]
  /\ passed' = IF args # <<>> THEN Append(passed, args[1]) ELSE passed
  /\ UNCHANGED <<defaultProps, initialSheetProps, hookResult, sheet, resolvers>>

\* BottomSheetContext.tsx 38-43; a props object is truthy, no argument is not
showBottomSheet(args) ==
  /\ args # <<>> => Len(passed) < MaxShown
  /\ sheetProps' = IF args # <<>> THEN Spread(sheetProps, args[1]) ELSE sheetProps
  /\ providerIsVisible' = TRUE
  /\ lastCall' = [op |-> "show", args |-> args]
  /\ passed' = IF args # <<>> THEN Append(passed, args[1]) ELSE passed
  /\ UNCHANGED <<defaultProps, initialSheetProps, hookResult, sheet, resolvers>>

\* a hideBottomSheet that flips the flag
hideBottomSheetToggles ==
  /\ providerIsVisible' = ~providerIsVisible
  /\ lastCall' = [op |-> "hide", args |-> <<>>]
  /\ UNCHANGED <<defaultProps, sheetProps, initialSheetProps, passed, hookResult,
                 sheet, resolvers>>

\* BottomSheetContext.tsx 46-48
hideBottomSheet ==
  /\ providerIsVisible' = FALSE
  /\ lastCall' = [op |-> "hide", args |-> <<>>]
  /\ UNCHANGED <<defaultProps, sheetProps, initialSheetProps, passed, hookResult,
                 sheet, resolvers>>

\* the host renders the provider again with other defaultProps: useState
\* (line 34) takes its argument on the first render only
SetDefaultProps(d) ==
  /\ d # defaultProps
  /\ defaultProps' = d
  /\ UNCHANGED <<providerIsVisible, sheetProps, initialSheetProps, lastCall, passed,
                 hookResult, sheet, resolvers>>

\* JavaScript values as far as a truthiness test tells them apart
JsObject(o) == [type |-> "object", object |-> o]
JsUndefined == [type |-> "undefined", object |-> EmptyObject]
IsFalsy(v) == v.type = "undefined"

\* BottomSheetContext.tsx 13-18: the value of createContext
DefaultContext ==
  [isVisible |-> FALSE, showBottomSheet |-> "noop", hideBottomSheet |-> "noop",
   sheetProps |-> EmptyObject]
\* BottomSheetContext.tsx 51-57: the value the provider passes down
ProviderValue ==
  [isVisible |-> providerIsVisible, showBottomSheet |-> "showBottomSheet",
   hideBottomSheet |-> "hideBottomSheet", sheetProps |-> sheetProps]
\* React's useContext: the value of the nearest provider above the caller,
\* and the value given to createContext when there is none
useContext(inside) ==
  IF inside THEN JsObject(ProviderValue) ELSE JsObject(DefaultContext)

\* BottomSheetContext.tsx 67-75
useBottomSheet(inside) ==
  LET context == useContext(inside)
  IN IF IsFalsy(context)
     THEN [threw |-> TRUE,
           error |-> "useBottomSheet must be used within a BottomSheetProvider",
           value |-> JsUndefined]
     ELSE [threw |-> FALSE, error |-> "", value |-> context]

\* a component that calls useBottomSheet is rendered, inside the provider
\* or outside of every provider
RenderConsumer(inside) ==
  /\ hookResult' = <<[inside |-> inside, result |-> useBottomSheet(inside)]>>
  /\ UNCHANGED <<defaultProps, providerIsVisible, sheetProps, initialSheetProps,
                 lastCall, passed, sheet, resolvers>>

ProviderInit ==
  /\ InitSheet
  /\ snapPointsPassed
  /\ \E d \in DefaultPropsSets : InitProvider(d)
  /\ snapArgs = NoCall
  /\ snapResult = <<>>
  /\ dimArgs = NoDim
  /\ dimResult = <<>>

ProviderNext ==
  \/ \E args \in ShowArgs : showBottomSheet(args)
  \/ hideBottomSheet
  \/ \E d \in DefaultPropsSets : SetDefaultProps(d)
  \/ \E inside \in BOOLEAN : RenderConsumer(inside)

ProviderSpec == ProviderInit /\ [][ProviderNext]_vars

(***************************************************************************)
(* Properties.                                                             *)
(***************************************************************************)
\* a mouse gesture is in progress on listeners that its mousedown attached
MouseGesture == mouseHeld /\ docMouseMove # <<>> /\ docMouseUp # <<>>

\* C1: whenever the rendered lower bound is at most the rendered upper
\* bound, the sheet height is a number between the two, in every reachable
\* state (after a drag's begin, move and end, a resize, a prop change, the
\* keyboard toggle).
C1_HeightWithinBounds ==
  (IsNum(minHeightPx) /\ IsNum(maxHeightPx) /\ minHeightPx <= maxHeightPx)
    => (IsNum(sheetHeight) /\ minHeightPx <= sheetHeight /\ sheetHeight <= maxHeightPx)

\* C2: every move delivered while dragging is enabled and a drag is active
\* (a touchmove on the handle, or a mousemove during a mouse gesture), sets
\* the height to max(minPx, min(maxPx, startHeight + (startY - currentY)))
\* and invokes onHeightChange exactly once, with that height.
C2_MoveSetsClampedHeight ==
  [][\A y \in Ys :
       ((handleTouchMove(y) \/ (MouseGesture /\ DocMouseMove(y)))
          /\ isDraggable /\ isDragging)
       => LET h == MathMax(minHeightPx,
                           MathMin(maxHeightPx, dragStartHeight + (dragStartY - y)))
          IN sheetHeight' = h /\ calls' = << <<"onHeightChange", h>> >>]_vars

\* C3: an event of the mouse stream (mousedown on the handle, mousemove and
\* mouseup on the document listeners mousedown attached) leaves the height,
\* the dragging flag and the recorded start behind, and invokes the
\* callbacks, exactly as the same event of the touch stream would from the
\* same state.
C3_MouseAsTouch ==
  [][/\ \A y \in Ys :
          /\ OnMouseDown(y)
               => LET t == TouchStartResult(y)
                  IN /\ dragStartY' = t.startY
                     /\ dragStartHeight' = t.startHeight
                     /\ isDragging' = t.dragging
                     /\ calls' = t.calls
          /\ (MouseGesture /\ DocMouseMove(y))
               => LET t == TouchMoveResult(y)
                  IN sheetHeight' = t.height /\ calls' = t.calls
     /\ (MouseGesture /\ DocMouseUp)
          => LET t == TouchEndResult
             IN sheetHeight' = t.height /\ isDragging' = t.dragging /\ calls' = t.calls
    ]_vars

\* C4: an end (touchend, or mouseup during a mouse gesture) with dragging
\* and snapping enabled resolves the height the sheet has at the time of
\* the end: the sheet adopts the resolved height, onSnap receives the
\* resolved index and onHeightChange the resolved height.
C4_EndSnapsCurrentHeight ==
  [][((handleTouchEnd \/ (MouseGesture /\ DocMouseUp))
        /\ isDraggable /\ enableSnapping /\ snapPoints # <<>>)
     => LET r == findNearestSnapPoint(sheetHeight, TRUE, snapPoints, innerHeight)
        IN /\ sheetHeight' = r.height
           /\ calls' = << <<"onSnap", r.onSnap[1]>>, <<"onHeightChange", r.height>>,
                          <<"onDragEnd">> >>]_vars

\* C5: for a non-empty list of snap points the resolver returns the pixel
\* value of an entry at minimal distance from the given height and reports
\* the index of the earliest such entry; duplicates are allowed.
C5_NearestEarliest ==
  snapResult # <<>> =>
    LET pts == snapArgs.points
        px(i) == (pts[i] * snapArgs.V) \div 100
        dist(i) == IF snapArgs.height >= px(i) THEN snapArgs.height - px(i)
                   ELSE px(i) - snapArgs.height
        best == CHOOSE i \in 1..Len(pts) :
                  /\ \A j \in 1..Len(pts) : dist(i) <= dist(j)
                  /\ \A j \in 1..(i - 1) : dist(j) > dist(i)
    IN /\ snapResult[1].height = px(best)
       /\ snapResult[1].onSnap = <<best - 1>>

\* C5 happens: a height midway between two snap points was resolved, and
\* the first of them was chosen
C5_TieResolved ==
  /\ snapResult # <<>>
  /\ snapArgs.points = <<30, 70>> /\ snapArgs.V = 1000 /\ snapArgs.height = 500
  /\ snapResult[1] = [height |-> 300, onSnap |-> <<0>>]

\* C6: a move that follows the end of a gesture, with no gesture begun
\* since, changes neither the height nor the dragging flag and invokes no
\* callback.
C6_MoveAfterEndIsInert ==
  [][\A y \in Ys :
       ((handleTouchMove(y) \/ DocMouseMove(y))
          /\ lastOp \in {"touchend", "mouseup"} /\ ~touchHeld /\ ~mouseHeld)
       => (sheetHeight' = sheetHeight /\ isDragging' = isDragging /\ calls' = <<>>)]_vars

\* C7: whenever no mouse gesture is in progress the document holds no
\* mousemove and no mouseup listener of the sheet: every mouseup removed
\* exactly what its mousedown attached, whatever the host re-rendered in
\* between.
C7_NoListenerOutsideGesture ==
  ~mouseHeld => (docMouseMove = <<>> /\ docMouseUp = <<>>)

\* C8: once the sheet is unmounted the document holds no mousemove and no
\* mouseup listener of the sheet.
C8_UnmountRemovesListeners ==
  ~mounted => (docMouseMove = <<>> /\ docMouseUp = <<>>)

\* C9: a begin (touchstart, mousedown) with dragging enabled records its Y
\* as the start Y and the current height as the start height, sets
\* dragging and invokes onDragStart exactly once; with dragging disabled it
\* changes no state, attaches no listener and invokes no callback.
C9_BeginRecordsStart ==
  [][\A y \in Ys :
       (handleTouchStart(y) \/ OnMouseDown(y))
       => IF isDraggable
          THEN /\ dragStartY' = y
               /\ dragStartHeight' = sheetHeight
               /\ isDragging'
               /\ calls' = << <<"onDragStart">> >>
          ELSE /\ UNCHANGED <<sheetHeight, isDragging, refs, listeners>>
               /\ calls' = <<>>]_vars

\* C9 happens: a begin with dragging enabled has just recorded a start
\* height other than the initial one
C9_BeginHappened ==
  /\ lastOp \in {"touchstart", "mousedown"}
  /\ isDragging /\ calls = << <<"onDragStart">> >>
  /\ dragStartHeight = sheetHeight /\ sheetHeight # 300

\* C10: an end with dragging enabled leaves dragging false and invokes
\* onDragEnd exactly once, and over any sequence of events onDragEnd has
\* been invoked at most as often as onDragStart.
C10_EndsMatchStarts ==
  [][/\ ((handleTouchEnd \/ (MouseGesture /\ DocMouseUp)) /\ isDraggable)
          => /\ ~isDragging'
             /\ Cardinality({i \in DOMAIN calls' : calls'[i][1] = "onDragEnd"}) = 1
     /\ dragBalance' >= 0]_vars

C12_VisibleMirrorsProp ==
  visible = isVisible

\* C12 happens: the host has flipped isVisible to false and the state
\* followed
C12_Hidden ==
  lastOp = "props" /\ ~isVisible /\ ~visible

\* C13: visible changes only in a step that changes the isVisible prop; a
\* backdrop click and an Escape press leave it alone and invoke nothing but
\* onClose.
C13_OnlyHostChangesVisible ==
  [][/\ visible' # visible => isVisible' # isVisible
     /\ (handleBackdropClick \/ handleEscapeKey)
          => /\ visible' = visible
             /\ \A i \in DOMAIN calls' : calls'[i][1] = "onClose"]_vars

\* C13 happens: a backdrop click has requested the close and the sheet is
\* still visible
C13_CloseRequested ==
  lastOp = "click" /\ calls = << <<"onClose", "f">> >> /\ visible /\ isVisible

\* C14: a backdrop click invokes the host's onClose exactly once when
\* closeOnClickOutside is enabled (and an onClose was passed), also while
\* isVisible is false, and invokes nothing when closeOnClickOutside is
\* disabled.
C14_ClickRequestsClose ==
  [][handleBackdropClick
       => /\ (closeOnClickOutside /\ onClose # <<>>)
               => calls' = << <<"onClose", onClose[1]>> >>
          /\ ~closeOnClickOutside => calls' = <<>>]_vars

\* C14 happens: a backdrop click while isVisible is false has invoked onClose
C14_ClickWhileHidden ==
  lastOp = "click" /\ ~isVisible /\ Len(calls) = 1 /\ calls[1][1] = "onClose"

\* C15: an Escape press invokes the current onClose exactly once if
\* closeOnEscape is enabled and the sheet is visible (and an onClose was
\* passed), and invokes nothing otherwise; the document never holds more
\* than one keydown listener of the sheet, and none while closeOnEscape is
\* false or after unmount.
C15_EscapeRequestsClose ==
  [][/\ handleEscapeKey
          => calls' = IF closeOnEscape /\ visible /\ onClose # <<>>
                      THEN << <<"onClose", onClose[1]>> >> ELSE <<>>
     /\ Len(docKeydown') <= 1
     /\ ~closeOnEscape' => docKeydown' = <<>>
     /\ ~mounted' => docKeydown' = <<>>]_vars

\* C15 happens: after the host replaced onClose, an Escape press invoked
\* the new function once
C15_EscapeAfterRerender ==
  lastOp = "escape" /\ calls = << <<"onClose", "g">> >> /\ Len(docKeydown) = 1

\* C16: both conversions follow one rule: "N%" gives N/100 of the viewport
\* height, "Npx" gives N, and any other string gives 30% of the viewport
\* height.
C16_OneConversionRule ==
  dimResult # <<>> =>
    LET v == dimArgs.value
        expected == IF v.suffix = "%" THEN (v.num * dimArgs.V) \div 100
                    ELSE IF v.suffix = "px" THEN v.num
                    ELSE (30 * dimArgs.V) \div 100
    IN dimResult[1].initial = expected /\ dimResult[1].pixel = expected

\* C17: every resize sets the height to the initial dimension resolved
\* against the new viewport height, whatever the height was before and also
\* during an active drag.
C17_ResizeResetsHeight ==
  [][\A V \in Viewports :
       handleResize(V)
       => /\ innerHeight' = V
          /\ sheetHeight' = IF initialHeight.suffix = "%"
                            THEN (initialHeight.num * V) \div 100
                            ELSE IF initialHeight.suffix = "px" THEN initialHeight.num
                            ELSE (30 * V) \div 100]_vars

\* C17 happens: a resize to the 500px viewport during a drag that began at
\* height 600 has reset the height to 30% of 500
C17_ResetDuringDrag ==
  /\ lastOp = "resize" /\ isDragging /\ dragStartHeight = 600
  /\ innerHeight = 500 /\ sheetHeight = 150

\* C18: an end never makes a non-number the current height, and never
\* reports one through onHeightChange, the end with snapping enabled and an
\* empty snap point list included.
C18_EndNeverAdoptsNonNumber ==
  /\ IsNum(sheetHeight)
  /\ \A i \in DOMAIN calls : calls[i][1] = "onHeightChange" => IsNum(calls[i][2])

\* C19 as stated: the attributes are role=dialog, aria-modal=true and
\* aria-hidden = not visible, and id and aria-labelledby ("<id>-title") are
\* present exactly when the host passed an id.
C19_A11yWhenIdPassed ==
  /\ a11yProps.role = "dialog" /\ a11yProps.ariaModal = TRUE
  /\ a11yProps.ariaHidden = ~visible
  /\ id # <<>> <=> "id" \in DOMAIN a11yProps
  /\ id # <<>> <=> "ariaLabelledby" \in DOMAIN a11yProps
  /\ "id" \in DOMAIN a11yProps
       => a11yProps.id = id[1] /\ a11yProps.ariaLabelledby = <<id[1], "-title">>

\* C19, amended: the attributes are role=dialog, aria-modal=true and
\* aria-hidden = not visible, and id and aria-labelledby ("<id>-title") are
\* present exactly when the host passed a non-empty id.
C19_A11yWhenIdNonEmpty ==
  LET given == id # <<>> /\ id[1] # ""
  IN /\ a11yProps.role = "dialog" /\ a11yProps.ariaModal = TRUE
     /\ a11yProps.ariaHidden = ~visible
     /\ given <=> "id" \in DOMAIN a11yProps
     /\ given <=> "ariaLabelledby" \in DOMAIN a11yProps
     /\ given => a11yProps.id = id[1] /\ a11yProps.ariaLabelledby = <<id[1], "-title">>

\* C19 happens: a hidden sheet with an id carries the id, the title
\* reference and aria-hidden
C19_HiddenWithId ==
  /\ id = <<"sheet">> /\ ~visible
  /\ a11yProps = [role |-> "dialog", ariaModal |-> TRUE, ariaHidden |-> TRUE,
                  id |-> "sheet", ariaLabelledby |-> <<"sheet", "-title">>]

\* C20: a move delivered while dragging is disabled or while no drag is
\* active (a touchmove on the handle, a mousemove on the document) leaves
\* the height, the dragging flag, startY and startHeight unchanged and
\* invokes no callback.
C20_MoveOutsideDragIsNoOp ==
  [][\A y \in Ys :
       ((handleTouchMove(y) \/ DocMouseMove(y)) /\ (~isDraggable \/ ~isDragging))
       => (UNCHANGED <<sheetHeight, isDragging, dragStartY, dragStartHeight>>
           /\ calls' = <<>>)]_vars

\* C21: an end (touchend, or mouseup during a mouse gesture) with dragging
\* enabled and enableSnapping false leaves the height and the recorded start
\* as they were, clears the dragging flag, and invokes onDragEnd and nothing
\* else: no onSnap, no onHeightChange.
C21_EndWithoutSnapping ==
  [][((handleTouchEnd \/ (MouseGesture /\ DocMouseUp))
        /\ isDraggable /\ ~enableSnapping)
     => /\ sheetHeight' = sheetHeight
        /\ ~isDragging'
        /\ UNCHANGED <<dragStartY, dragStartHeight>>
        /\ calls' = << <<"onDragEnd">> >>]_vars

\* C22 as stated: a change of the initialHeight, minHeight or maxHeight
\* prop leaves the current height as it was; only a resize replaces it by
\* the initial dimension.
C22_ConfigKeepsHeight ==
  [][((\E v \in InitialHeights : SetInitialHeight(v))
        \/ (\E v \in MinHeights : SetMinHeight(v))
        \/ (\E v \in MaxHeights : SetMaxHeight(v)))
     => sheetHeight' = sheetHeight]_vars

\* C22, amended: a change of the minHeight or maxHeight prop leaves the
\* current height as it was; a change of the initialHeight prop replaces it
\* by the new initial dimension resolved against the current viewport, as a
\* resize does with the unchanged initialHeight.
C22_BoundsKeepHeight ==
  [][/\ ((\E v \in MinHeights : SetMinHeight(v))
           \/ (\E v \in MaxHeights : SetMaxHeight(v)))
          => sheetHeight' = sheetHeight
     /\ \A v \in InitialHeights :
          SetInitialHeight(v)
            => sheetHeight' = IF v.suffix = "%" THEN (v.num * innerHeight) \div 100
                              ELSE v.num
     /\ \A V \in Viewports :
          handleResize(V)
            => sheetHeight' = IF initialHeight.suffix = "%"
                              THEN (initialHeight.num * V) \div 100
                              ELSE initialHeight.num]_vars

\* C22 happens: the host lowered maxHeight to 50% while the sheet stood at
\* the dragged height 600, and the height is still 600
C22_DraggedHeightKept ==
  /\ lastOp = "props" /\ maxHeight = Pct(50) /\ minHeight = Pct(10)
  /\ initialHeight = Pct(30) /\ innerHeight = 1000
  /\ sheetHeight = 600 /\ maxHeightPx = 500

\* C23: a resize leaves the pixel bounds at the values derived from the
\* new viewport height, so that a move directly after a resize clamps
\* against the bounds of the new viewport and an end directly after a
\* resize snaps to a snap point of the new viewport, whether initialHeight
\* is a percentage or a pixel value.
C23_BoundsFollowResize ==
  [][/\ \A V \in Viewports :
          handleResize(V)
            => /\ minHeightPx' = (minHeight.num * V) \div 100
               /\ maxHeightPx' = (maxHeight.num * V) \div 100
     /\ \A y \in Ys :
          (handleTouchMove(y) /\ lastOp = "resize" /\ isDraggable /\ isDragging)
            => sheetHeight' = MathMax((minHeight.num * innerHeight) \div 100,
                                MathMin((maxHeight.num * innerHeight) \div 100,
                                        dragStartHeight + (dragStartY - y)))
     /\ (handleTouchEnd /\ lastOp = "resize" /\ isDraggable /\ enableSnapping)
          => \E i \in DOMAIN snapPoints :
               sheetHeight' = (snapPoints[i] * innerHeight) \div 100]_vars

\* C24: once the end event of the only gesture in progress (touchend, or
\* mouseup) has been delivered the dragging flag is false, whatever the
\* host changed between the begin and the end; the dragging flag is true
\* only while a pointer is down.
C24_EndClearsDragging ==
  [][/\ ((handleTouchEnd /\ ~mouseHeld) \/ (DocMouseUp /\ ~touchHeld)) => ~isDragging'
     /\ isDragging' => (touchHeld' \/ mouseHeld')]_vars

\* C25: there is one drag session.  A begin of either stream that arrives
\* while the session is active (and dragging is enabled) overwrites the
\* recorded start with its Y and the current height and leaves the session
\* active; while both pointers are down every move of either stream sets
\* the height relative to that recorded start; the end of either stream
\* deactivates the session.
C25_SingleSession ==
  [][/\ \A y \in Ys :
          /\ ((handleTouchStart(y) \/ OnMouseDown(y)) /\ isDraggable /\ isDragging)
               => /\ dragStartY' = y
                  /\ dragStartHeight' = sheetHeight
                  /\ isDragging'
          /\ ((handleTouchMove(y) \/ (MouseGesture /\ DocMouseMove(y)))
                /\ touchHeld /\ mouseHeld /\ isDraggable /\ isDragging)
               => sheetHeight' = MathMax(minHeightPx,
                                   MathMin(maxHeightPx,
                                           dragStartHeight + (dragStartY - y)))
     /\ ((handleTouchEnd \/ (MouseGesture /\ DocMouseUp)) /\ isDraggable)
          => ~isDragging']_vars

C27_CallbackOrder ==
  [][/\ (handleTouchEnd \/ DocMouseUp)
          => \A i \in DOMAIN calls' :
               /\ calls'[i][1] = "onSnap"
                    => i < Len(calls') /\ calls'[i + 1][1] = "onHeightChange"
               /\ calls'[i][1] = "onHeightChange"
                    => i < Len(calls') /\ calls'[i + 1][1] = "onDragEnd"
     /\ ((handleTouchEnd \/ DocMouseUp
            \/ \E y \in Ys : handleTouchMove(y) \/ DocMouseMove(y))
           /\ \E i \in DOMAIN calls' : calls'[i][1] = "onHeightChange")
          => dragBalance > 0]_vars

\* C28: a touch move calls preventDefault exactly when it is processed as
\* a drag move, that is when dragging is enabled and a drag is active; a
\* touch move outside an active drag leaves the default scroll alone.
C28_PreventDefaultIffDragMove ==
  [][\A y \in Ys :
       handleTouchMove(y)
       => /\ defaultPrevented' = (isDraggable /\ isDragging)
          /\ defaultPrevented' = (calls' # <<>>)]_vars

\* C28 happens: a touch move of an active drag has moved the sheet and
\* suppressed the default
C28_ScrollSuppressed ==
  /\ lastOp = "touchmove" /\ defaultPrevented /\ isDragging
  /\ sheetHeight = 600 /\ calls = << <<"onHeightChange", 600>> >>

\* C29: a flip of isVisible, a backdrop click and an Escape press leave
\* the height unchanged; while no pointer is down the height changes only
\* by a resize or a change of initialHeight, so that the height a gesture
\* ended with is still the height when the next gesture begins; and that
\* begin records it as its start height.
C29_HeightPersists ==
  [][/\ (handleBackdropClick \/ handleEscapeKey \/ \E b \in BOOLEAN : SetIsVisible(b))
          => sheetHeight' = sheetHeight
     /\ (~touchHeld /\ ~mouseHeld /\ ~touchHeld' /\ ~mouseHeld'
           /\ sheetHeight' # sheetHeight)
          => ((\E V \in Viewports : handleResize(V))
                \/ (\E v \in InitialHeights : SetInitialHeight(v)))
     /\ \A y \in Ys :
          ((handleTouchStart(y) \/ OnMouseDown(y)) /\ isDraggable)
            => dragStartHeight' = sheetHeight]_vars

C31_VisibleFollowsLastCall ==
  /\ lastCall.op = "mount" => ~providerIsVisible
  /\ lastCall.op = "show" => providerIsVisible
  /\ lastCall.op = "hide" => ~providerIsVisible

\* C31 happens: showBottomSheet() has been called on a provider that was
\* shown with props twice before, and the provider is visible
C31_ShownAgain ==
  /\ lastCall = [op |-> "show", args |-> <<>>]
  /\ Len(passed) = 2
  /\ providerIsVisible

\* C32: sheetProps holds exactly the keys of the props the provider was
\* mounted with and of the props objects passed to showBottomSheet so far;
\* each key has the value of the latest object passed that contains it, and
\* the mounted value when none does.  So hideBottomSheet and showBottomSheet()
\* leave sheetProps as it is, showBottomSheet(props) replaces the keys of
\* props only, and nothing goes back to the defaults.
C32_SheetPropsAccumulate ==
  LET shown(k) == {i \in 1..Len(passed) : k \in DOMAIN passed[i]}
      latest(k) == CHOOSE i \in shown(k) : \A j \in shown(k) : j <= i
  IN /\ DOMAIN sheetProps
          = DOMAIN initialSheetProps
              \cup UNION {DOMAIN passed[i] : i \in 1..Len(passed)}
     /\ \A k \in DOMAIN sheetProps :
          sheetProps[k] = IF shown(k) = {} THEN initialSheetProps[k]
                          ELSE passed[latest(k)][k]

\* C32 happens: a provider mounted with initialHeight "30%" and snapping on
\* was shown with initialHeight "60%", then with enableSnapping false, then
\* hidden: the height of the first show is still there, and so is the
\* second show's flag
C32_EarlierPropsPersist ==
  /\ initialSheetProps = [initialHeight |-> "30%", enableSnapping |-> TRUE]
  /\ passed = <<[initialHeight |-> "60%"], [enableSnapping |-> FALSE]>>
  /\ lastCall.op = "hide"
  /\ sheetProps = [initialHeight |-> "60%", enableSnapping |-> FALSE]

\* C33: a call of useBottomSheet by a component that is outside of every
\* BottomSheetProvider raises the error "useBottomSheet must be used within
\* a BottomSheetProvider" and returns no context value.
C33_ThrowsOutsideProvider ==
  (hookResult # <<>> /\ ~hookResult[1].inside)
    => /\ hookResult[1].result.threw
       /\ hookResult[1].result.error
            = "useBottomSheet must be used within a BottomSheetProvider"

====
